---------------------------- MODULE Spec2Model ----------------------------
(***************************************************************************)
(* Financial-Advisory-Chatbot: a model of the two scripts                  *)
(*   src/Stock_risk_assessment/stock_risk.py  (clustering advisor)         *)
(*   src/prophet.py                           (forecast selector)          *)
(* Each script function is an operator computed as the code computes it,   *)
(* or a small state machine when it loops or branches on earlier steps.    *)
(* Every specification below runs one function of the scripts; the         *)
(* variables of the other functions stay at their idle values.             *)
(***************************************************************************)
EXTENDS Integers, Sequences, FiniteSets, TLC

VARIABLES
    \* ---- analyze_user_portfolio (stock_risk.py:270-314)
    clustered_df,      \* the cluster-labeled table, a sequence of rows
    user_portfolio,    \* the holdings, a set of tickers
    top_n,             \* the top_n argument
    rec_pc,            \* "call" before the call, "done" after it
    rec_path,          \* which return statement was taken
    recommendations,   \* the returned frame, a sequence of rows
    \* ---- prophet.py main (379-495)
    world,             \* what the data provider and the two libraries answer
    fc_pc,             \* where main is: "start" ... "done", or "raised"
    fc_locals,         \* the names bound in main's frame: locals()
    prophet_mse,       \* main's local prophet_mse (line 391)
    mse_prophet,       \* main's local mse_prophet (line 398)
    arma_mse,          \* main's local arma_mse
    better_model,      \* main's local better_model
    arma_forecast,     \* main's local arma_forecast: "None" or "series"
    plotted,           \* which plot function was called
    printed,           \* what main printed, in order
    \* ---- preprocess_data (stock_risk.py:139-170)
    input_df,          \* the frame pd.read_csv(input_csv) yields
    pp_pc,             \* "call", then "returned" or "raised"
    df_final,          \* the frame preprocess_data returns
    \* ---- fetch_and_save_stock_data (stock_risk.py:52-133)
    tickers,           \* the tickers argument
    batch_size,        \* the batch_size argument
    provider,          \* per position of tickers: what the data provider does
    output_csv,        \* the output file: whether it exists, and its text
    file_before,       \* output_csv as the current run found it
    fetch_pc,          \* "start", "batch", "ticker", "done"
    batch_i,           \* i of the batch loop, line 77
    batch_j,           \* tickers of the current batch already handled
    fetch_log,         \* the tickers of the "Processing ..." prints, line 83
    runs,              \* completed runs of the function
    \* ---- load_stock_tickers (stock_risk.py:21-46)
    csv_file,          \* the file at csv_path
    load_pc,           \* "call", "done"
    loaded,            \* the list load_stock_tickers returns
    load_printed,      \* the message it prints, as its parts
    \* ---- one symbol from the fetch to the preprocessing
    \*      (stock_risk.py:97-115 and 139-170)
    pl_info,           \* stock.info of the symbol
    pl_stats,          \* mean and std of its daily returns, as text
    pl_context,        \* whether the line of a complete symbol precedes
    pl_file,           \* the table file
    pl_pc,             \* "build", "written", "returned", "raised"
    pl_final,          \* the frame preprocess_data returns
    \* ---- save_clustering_results and the read in main
    \*      (stock_risk.py:252-263, 377)
    rt_df,             \* the Ticker column of the preprocessed frame
    rt_labels,         \* the cluster labels, one per row
    rt_file,           \* the text of indian_stocks_clusters.csv
    rt_pc,             \* "save", "saved", "read"
    rt_read,           \* the rows pd.read_csv gives back: Ticker and Cluster
    \* ---- train_and_predict_prophet, the dates (prophet.py:51-101)
    pr_last_train,     \* train_df['ds'].max(), a day number
    pr_test,           \* test_df['ds'], two day numbers
    pr_pc,             \* "call", "returned", "raised"
    pr_future,         \* future_predictions['ds']
    \* ---- the forward forecast of the ARMA model (prophet.py:437-455)
    af_len,            \* len(df_arma); the observations are numbered 1..len
    af_last_date,      \* df_arma['Date'].max(), a day number
    af_pc,             \* "fit", "loop", "done"
    af_train,          \* the observations arma_model_full is fitted on
    af_forecast,       \* arma_forecast: per step, the period it predicts
    af_current,        \* current_date
    af_future_dates,   \* future_dates
    af_index,          \* arma_forecast.index
    \* ---- determine_arma_order (prophet.py:200-232)
    ao_pacf,           \* pacf_vals, lags 0..max_lag
    ao_acf,            \* acf_vals, lags 0..max_lag
    ao_pc,             \* "call", "returned"
    ao_order           \* the pair (p, q) returned

recVars == <<clustered_df, user_portfolio, top_n, rec_pc, rec_path, recommendations>>
fcVars  == <<world, fc_pc, fc_locals, prophet_mse, mse_prophet, arma_mse,
             better_model, arma_forecast, plotted, printed>>

ppVars  == <<input_df, pp_pc, df_final>>
ftVars  == <<tickers, batch_size, provider, output_csv, file_before, fetch_pc,
             batch_i, batch_j, fetch_log, runs>>

ldVars  == <<csv_file, load_pc, loaded, load_printed>>

plVars  == <<pl_info, pl_stats, pl_context, pl_file, pl_pc, pl_final>>

rtVars  == <<rt_df, rt_labels, rt_file, rt_pc, rt_read>>

prVars  == <<pr_last_train, pr_test, pr_pc, pr_future>>

afVars  == <<af_len, af_last_date, af_pc, af_train, af_forecast, af_current,
             af_future_dates, af_index>>

aoVars  == <<ao_pacf, ao_acf, ao_pc, ao_order>>

vars == <<recVars, fcVars, ppVars, ftVars, ldVars, plVars, rtVars, prVars, afVars,
          aoVars>>

\* ------------------------------------------------------------------ bounds
MaxRows == 3          \* rows of a cluster-labeled table
MaxTopN == 1          \* largest explicit top_n tried (besides the default)
MaxMSE == 5           \* backtest errors are 0..MaxMSE, or infinite
MaxPreRows == 2       \* rows of the consolidated table given to preprocess_data
MaxTickers == 3       \* length of the tickers list given to the fetch
MaxBatch == 2         \* largest batch_size tried
MaxRuns == 2          \* runs of the fetch over the same output file
MaxCsvRows == 3       \* rows of the tickers file
MaxSavedRows == 3     \* rows of the table the preprocessing read
MaxGap == 6           \* days from one observation to the next
MaxExtraRows == 1     \* rows of df_arma beyond the 32 required
MaxLastDate == 6      \* latest last observed date (day 0 is a Monday)
MaxLag == 2           \* largest max_lag given to determine_arma_order

\* ------------------------------------------------------------ idle values
DefaultTopN == 5      \* def analyze_user_portfolio(..., top_n=5)

\* The recommendation variables while another function runs.
RecIdle ==
    /\ clustered_df = <<>>
    /\ user_portfolio = {}
    /\ top_n = DefaultTopN
    /\ rec_pc = "idle"
    /\ rec_path = "none"
    /\ recommendations = <<>>

\* The forecast variables while another function runs.
FcIdle ==
    /\ world = [p_fetch |-> "frame", p_len |-> 0, p_fit |-> "ok", p_mse |-> 0,
                a_fetch |-> "None", a_len |-> 0, a_fit |-> "ok",
                a_forecast |-> "ok", a_mse |-> 0, a_fit_full |-> "ok",
                a_predict |-> "ok"]
    /\ fc_pc = "idle"
    /\ fc_locals = {}
    /\ prophet_mse = 0
    /\ mse_prophet = 0
    /\ arma_mse = 0
    /\ better_model = "unset"
    /\ arma_forecast = "unset"
    /\ plotted = "none"
    /\ printed = <<>>

PpIdle ==
    /\ input_df = <<>>
    /\ pp_pc = "idle"
    /\ df_final = <<>>

FtIdle ==
    /\ tickers = <<>>
    /\ batch_size = 1
    /\ provider = <<>>
    /\ output_csv = [exists |-> FALSE, text |-> <<>>]
    /\ file_before = [exists |-> FALSE, text |-> <<>>]
    /\ fetch_pc = "idle"
    /\ batch_i = 0
    /\ batch_j = 0
    /\ fetch_log = <<>>
    /\ runs = 0

LdIdle ==
    /\ csv_file = [exists |-> FALSE, columns |-> <<>>, rows |-> <<>>]
    /\ load_pc = "idle"
    /\ loaded = <<>>
    /\ load_printed = <<>>

PlIdle ==
    /\ pl_info = <<>>
    /\ pl_stats = [avg_return |-> "nan", volatility |-> "nan"]
    /\ pl_context = FALSE
    /\ pl_file = [exists |-> FALSE, text |-> <<>>]
    /\ pl_pc = "idle"
    /\ pl_final = <<>>

RtIdle ==
    /\ rt_df = <<>>
    /\ rt_labels = <<>>
    /\ rt_file = <<>>
    /\ rt_pc = "idle"
    /\ rt_read = <<>>

PrIdle ==
    /\ pr_last_train = 0
    /\ pr_test = <<>>
    /\ pr_pc = "idle"
    /\ pr_future = <<>>

AfIdle ==
    /\ af_len = 0
    /\ af_last_date = 0
    /\ af_pc = "idle"
    /\ af_train = [from |-> 1, to |-> 0]
    /\ af_forecast = <<>>
    /\ af_current = 0
    /\ af_future_dates = <<>>
    /\ af_index = <<>>

AoIdle ==
    /\ ao_pacf = <<>>
    /\ ao_acf = <<>>
    /\ ao_pc = "idle"
    /\ ao_order = <<0, 0>>

\* ------------------------------------------------------- generic helpers
Min(a, b) == IF a < b THEN a ELSE b
Max(a, b) == IF a > b THEN a ELSE b

Range(s) == {s[i] : i \in DOMAIN s}

\* All sequences over S of length 0..n.
SeqsUpTo(S, n) == UNION {[1..k -> S] : k \in 0..n}

\* The bijections of 1..n onto itself.
Perms(n) == {p \in [1..n -> 1..n] : \A i, j \in 1..n : p[i] = p[j] => i = j}

(***************************************************************************)
(* prophet.py: the forecast run, main(sticke)                              *)
(***************************************************************************)
MinProphetRows == 10      \* if len(df_prophet) < 10
ArmaTrainDays  == 30      \* required_days_arma = 30 + 2
ArmaTestDays   == 2
RequiredDaysArma == ArmaTrainDays + ArmaTestDays

\* np.inf, above every finite backtest error
Inf == MaxMSE + 1
MSEs == 0..MaxMSE

\* The lengths of the fetched frames that are tried: around each threshold.
ProphetLens == {0, MinProphetRows - 1, MinProphetRows, MinProphetRows + 1}
\* (get_stock_data_arma returns None for an empty frame, lines 191-198.)
ArmaLens == {0, 1, RequiredDaysArma - 1, RequiredDaysArma, RequiredDaysArma + 1}

\* What the outside answers during one run.  A field that the run cannot
\* reach because of an earlier field is held at one value.
Worlds ==
    { w \in [ p_fetch : {"raises", "frame"},  \* yf.download and lines 45-48
              p_len : ProphetLens,            \* len(df_prophet)
              p_fit : {"raises", "ok"},       \* Prophet fit / predict / .loc
              p_mse : MSEs,                   \* mean_squared_error, line 90
              a_fetch : {"None", "frame"},    \* get_stock_data_arma
              a_len : ArmaLens,               \* len(df_arma)
              a_fit : {"None", "ok"},         \* fit_arma_model in evaluate_arma
              a_forecast : {"raises", "ok"},  \* arma_model.forecast(steps=2)
              a_mse : MSEs,                   \* mean_squared_error, line 311
              a_fit_full : {"None", "ok"},    \* fit_arma_model at line 442
              a_predict : {"None", "ok"} ] :  \* predict_arma at line 444
        /\ (w.p_fetch = "raises" => w.p_len = 0)
        /\ (w.p_len < MinProphetRows => w.p_fit = "ok")
        /\ (w.p_fit = "raises" => w.p_mse = 0)
        /\ (w.p_len < MinProphetRows => w.p_mse = 0)
        /\ (w.a_fetch = "None" <=> w.a_len = 0)
        /\ (w.a_len < RequiredDaysArma => w.a_fit = "ok")
        /\ (w.a_fit = "None" => w.a_forecast = "ok")
        /\ ((w.a_len < RequiredDaysArma \/ w.a_fit = "None"
               \/ w.a_forecast = "raises")
              => w.a_mse = 0 /\ w.a_fit_full = "ok" /\ w.a_predict = "ok")
        /\ (w.a_fit_full = "None" => w.a_predict = "ok") }

\* Python slicing of a frame of n rows: len(df.iloc[lo:hi]) for lo, hi < 0.
IlocLen(n, lo, hi) == Max(0, Max(0, n + hi) - Max(0, n + lo))

\* evaluate_arma(df, ticker), lines 272-312: the returned score.
EvaluateArma(w) ==
    IF \/ IlocLen(w.a_len, 0 - RequiredDaysArma, 0 - ArmaTestDays) < ArmaTrainDays
       \/ w.a_len - Max(0, w.a_len - ArmaTestDays) < ArmaTestDays
    THEN Inf
    ELSE IF w.a_fit = "None" THEN Inf
    ELSE IF w.a_forecast = "raises" THEN Inf
    ELSE w.a_mse

\* select_better_model(arma_mse, prophet_mse), lines 359-373
SelectBetterModelOnTie(a, p) == IF a <= p THEN "ARMA" ELSE "Prophet"
SelectBetterModel(a, p) == IF a < p THEN "ARMA" ELSE "Prophet"

\* The names train_and_predict_prophet's success binds at lines 394-401.
ProphetLocals ==
    {"train_df_prophet", "test_df_prophet", "model_prophet", "forecast_prophet",
     "mse_prophet", "future_predictions_prophet", "future_metrics_prophet"}

FcInit ==
    /\ AoIdle
    /\ AfIdle
    /\ PrIdle
    /\ RtIdle
    /\ PlIdle
    /\ LdIdle
    /\ RecIdle
    /\ PpIdle
    /\ FtIdle
    /\ world \in Worlds
    /\ fc_pc = "start"
    /\ fc_locals = {"ticker"}
    /\ prophet_mse = 0
    /\ mse_prophet = 0
    /\ arma_mse = 0
    /\ better_model = "unset"
    /\ arma_forecast = "unset"
    /\ plotted = "none"
    /\ printed = <<>>

\* line 387: get_stock_data_prophet has no handler; what it raises leaves main
ProphetFetchRaises ==
    /\ fc_pc = "start"
    /\ world.p_fetch = "raises"
    /\ fc_pc' = "raised"
    /\ UNCHANGED <<world, fc_locals, prophet_mse, mse_prophet, arma_mse,
                   better_model, arma_forecast, plotted, printed, recVars, ppVars, ftVars, ldVars, plVars, rtVars, prVars, afVars, aoVars>>

\* lines 390-391: too few rows
ProphetTooShort ==
    /\ fc_pc = "start"
    /\ world.p_fetch = "frame"
    /\ world.p_len < MinProphetRows
    /\ prophet_mse' = Inf
    /\ fc_locals' = fc_locals \cup {"df_prophet", "prophet_mse"}
    /\ fc_pc' = "prophet_done"
    /\ UNCHANGED <<world, mse_prophet, arma_mse, better_model, arma_forecast,
                   plotted, printed, recVars, ppVars, ftVars, ldVars, plVars, rtVars, prVars, afVars, aoVars>>

\* lines 398, 99-101: train_and_predict_prophet re-raises what it catches
ProphetFitRaises ==
    /\ fc_pc = "start"
    /\ world.p_fetch = "frame"
    /\ world.p_len >= MinProphetRows
    /\ world.p_fit = "raises"
    /\ fc_locals' = fc_locals \cup {"df_prophet", "train_df_prophet", "test_df_prophet"}
    /\ fc_pc' = "raised"
    /\ UNCHANGED <<world, prophet_mse, mse_prophet, arma_mse, better_model,
                   arma_forecast, plotted, printed, recVars, ppVars, ftVars, ldVars, plVars, rtVars, prVars, afVars, aoVars>>

\* lines 393-401: the trend model is fitted and backtested
ProphetFitted ==
    /\ fc_pc = "start"
    /\ world.p_fetch = "frame"
    /\ world.p_len >= MinProphetRows
    /\ world.p_fit = "ok"
    /\ mse_prophet' = world.p_mse
    /\ fc_locals' = fc_locals \cup {"df_prophet"} \cup ProphetLocals
    /\ fc_pc' = "prophet_done"
    /\ UNCHANGED <<world, prophet_mse, arma_mse, better_model, arma_forecast,
                   plotted, printed, recVars, ppVars, ftVars, ldVars, plVars, rtVars, prVars, afVars, aoVars>>

\* lines 407-418: the autoregressive model's backtest
ArmaBacktest ==
    /\ fc_pc = "prophet_done"
    /\ arma_mse' =
          IF world.a_fetch = "None" THEN Inf
          ELSE IF world.a_len < RequiredDaysArma THEN Inf
          ELSE EvaluateArma(world)
    /\ fc_locals' = fc_locals \cup {"df_arma", "arma_mse"}
                      \cup (IF world.a_fetch = "None" THEN {}
                            ELSE {"required_days_arma"})
    /\ fc_pc' = "arma_done"
    /\ UNCHANGED <<world, prophet_mse, mse_prophet, better_model, arma_forecast,
                   plotted, printed, recVars, ppVars, ftVars, ldVars, plVars, rtVars, prVars, afVars, aoVars>>

\* lines 425-429: the comparison
SelectModel ==
    /\ fc_pc = "arma_done"
    /\ printed' = Append(printed, "Finding the better model...")
    /\ better_model' =
          IF "mse_prophet" \in fc_locals /\ "arma_mse" \in fc_locals
          THEN SelectBetterModel(arma_mse, mse_prophet)
          ELSE IF arma_mse < Inf THEN "ARMA" ELSE "Prophet"
    /\ fc_locals' = fc_locals \cup {"better_model"}
    /\ fc_pc' = "selected"
    /\ UNCHANGED <<world, prophet_mse, mse_prophet, arma_mse, arma_forecast,
                   plotted, recVars, ppVars, ftVars, ldVars, plVars, rtVars, prVars, afVars, aoVars>>

\* lines 432-463: the plot of the selected model
PlotSelected ==
    /\ fc_pc = "selected"
    /\ fc_pc' = "plotted"
    /\ IF better_model = "Prophet" /\ "model_prophet" \in fc_locals
       THEN /\ plotted' = "prophet"
            /\ UNCHANGED <<arma_forecast, fc_locals>>
       ELSE IF better_model = "ARMA"
       THEN IF world.a_fetch # "None" /\ world.a_len >= RequiredDaysArma
            THEN IF world.a_fit_full # "None"
                 THEN \* line 444 binds arma_forecast, to a series or to None
                      /\ arma_forecast' = IF world.a_predict = "None"
                                          THEN "None" ELSE "series"
                      /\ plotted' = IF world.a_predict = "None"
                                    THEN "none" ELSE "arma"
                      /\ fc_locals' = fc_locals \cup
                            {"arma_train_full", "arma_order_full",
                             "arma_model_full", "arma_forecast"}
                            \cup (IF world.a_predict = "None" THEN {}
                                  ELSE {"last_date", "future_dates", "current_date"})
                 ELSE /\ fc_locals' = fc_locals \cup
                            {"arma_train_full", "arma_order_full", "arma_model_full"}
                      /\ UNCHANGED <<arma_forecast, plotted>>
            ELSE UNCHANGED <<arma_forecast, plotted, fc_locals>>
       ELSE UNCHANGED <<arma_forecast, plotted, fc_locals>>
    /\ UNCHANGED <<world, prophet_mse, mse_prophet, arma_mse, better_model,
                   printed, recVars, ppVars, ftVars, ldVars, plVars, rtVars, prVars, afVars, aoVars>>

\* lines 468-472: the trend model's table is printed
DisplayProphet ==
    /\ fc_pc = "plotted"
    /\ better_model = "Prophet" /\ "future_metrics_prophet" \in fc_locals
    /\ printed' = printed \o <<"predicting with the best model and plotting...",
                               "Future Predictions for next 7 days with Prophet:",
                               "future_metrics_prophet[date, predicted_price]">>
    /\ fc_pc' = "done"
    /\ UNCHANGED <<world, fc_locals, prophet_mse, mse_prophet, arma_mse,
                   better_model, arma_forecast, plotted, recVars, ppVars, ftVars, ldVars, plVars, rtVars, prVars, afVars, aoVars>>

\* lines 473-492: the autoregressive forecast's percentage change is printed
DisplayArma ==
    /\ fc_pc = "plotted"
    /\ ~(better_model = "Prophet" /\ "future_metrics_prophet" \in fc_locals)
    /\ better_model = "ARMA" /\ "arma_forecast" \in fc_locals
    /\ arma_forecast = "series"
    /\ \E direction \in {"increased", "decreased"} :
          printed' = printed \o <<"predicting with the best model and plotting...",
                                  "The predicted price " \o direction
                                      \o " by x% after 7 days.">>
    /\ fc_locals' = fc_locals \cup {"future_predictions_arma", "first_price",
                                    "last_price", "percentage_change"}
    /\ fc_pc' = "done"
    /\ UNCHANGED <<world, prophet_mse, mse_prophet, arma_mse, better_model,
                   arma_forecast, plotted, recVars, ppVars, ftVars, ldVars, plVars, rtVars, prVars, afVars, aoVars>>

\* lines 473-475: arma_forecast is bound to None, and None has no .index
DisplayArmaRaises ==
    /\ fc_pc = "plotted"
    /\ ~(better_model = "Prophet" /\ "future_metrics_prophet" \in fc_locals)
    /\ better_model = "ARMA" /\ "arma_forecast" \in fc_locals
    /\ arma_forecast = "None"
    /\ printed' = Append(printed, "predicting with the best model and plotting...")
    /\ fc_pc' = "raised"
    /\ UNCHANGED <<world, fc_locals, prophet_mse, mse_prophet, arma_mse,
                   better_model, arma_forecast, plotted, recVars, ppVars, ftVars, ldVars, plVars, rtVars, prVars, afVars, aoVars>>

\* lines 494-495
DisplayNone ==
    /\ fc_pc = "plotted"
    /\ ~(better_model = "Prophet" /\ "future_metrics_prophet" \in fc_locals)
    /\ ~(better_model = "ARMA" /\ "arma_forecast" \in fc_locals)
    /\ printed' = printed \o <<"predicting with the best model and plotting...",
                               "No predictions available.">>
    /\ fc_pc' = "done"
    /\ UNCHANGED <<world, fc_locals, prophet_mse, mse_prophet, arma_mse,
                   better_model, arma_forecast, plotted, recVars, ppVars, ftVars, ldVars, plVars, rtVars, prVars, afVars, aoVars>>

FcNext ==
    \/ ProphetFetchRaises
    \/ ProphetTooShort
    \/ ProphetFitRaises
    \/ ProphetFitted
    \/ ArmaBacktest
    \/ SelectModel
    \/ PlotSelected
    \/ DisplayProphet
    \/ DisplayArma
    \/ DisplayArmaRaises
    \/ DisplayNone

SpecForecast == FcInit /\ [][FcNext]_vars

\* ---- what the claims speak of
\* Whether the outside lets each model be fitted and backtested.
TrendFits ==
    /\ world.p_fetch = "frame"
    /\ world.p_len >= MinProphetRows
    /\ world.p_fit = "ok"
ArFits ==
    /\ world.a_fetch = "frame"
    /\ world.a_len >= RequiredDaysArma
    /\ world.a_fit = "ok"
    /\ world.a_forecast = "ok"

\* Each model's backtest MSE: what its backtest measured, or infinity.
TrendScore == IF TrendFits THEN world.p_mse ELSE Inf
ArScore == IF ArFits THEN world.a_mse ELSE Inf

Selected == better_model # "unset"
Terminated == fc_pc \in {"done", "raised"}
PrintedItems == Range(printed)
TrendTablePrinted ==
    "future_metrics_prophet[date, predicted_price]" \in PrintedItems

\* C4: the autoregressive model is selected only if its backtest MSE is
\* strictly lower than the trend model's, otherwise the trend model; when
\* only one model has a score, that one is selected; trend MSE 2 against
\* autoregressive MSE 5 selects the trend model and shows its projection.
C4_Selection ==
    Selected =>
        /\ better_model \in {"ARMA", "Prophet"}
        /\ (better_model = "ARMA" <=> ArScore < TrendScore)
        /\ (TrendFits /\ ~ArFits => better_model = "Prophet")
        /\ (ArFits /\ ~TrendFits => better_model = "ARMA")
        /\ (TrendScore = 2 /\ ArScore = 5 /\ Terminated) =>
              /\ fc_pc = "done"
              /\ better_model = "Prophet"
              /\ plotted = "prophet"
              /\ TrendTablePrinted

\* C4 witness: the run with trend MSE 2 and autoregressive MSE 5 has ended.
C4_Witness ==
    /\ fc_pc = "done"
    /\ TrendFits /\ ArFits
    /\ world.p_mse = 2 /\ world.a_mse = 5
    /\ better_model = "Prophet"
    /\ TrendTablePrinted

\* C5 as stated: whenever a model cannot be fitted, its backtest error is
\* recorded as infinity, no exception leaves main, and the other model (if
\* it has a score) wins the comparison.
C5_FailureScoresInfinity ==
    /\ (~TrendFits \/ ~ArFits) => fc_pc # "raised"
    /\ (Selected /\ ~TrendFits) =>
          /\ prophet_mse = Inf
          /\ (ArFits => better_model = "ARMA")
    /\ (Selected /\ ~ArFits) =>
          /\ arma_mse = Inf
          /\ (TrendFits => better_model = "Prophet")

\* C5, what holds: the same, for the failures that raise nothing in the
\* trend model's step (too few rows) and every failure of the
\* autoregressive backtest.
C5_HandledFailures ==
    (world.p_fetch = "frame" /\ world.p_fit = "ok") =>
        /\ (~ArFits => fc_pc # "raised")
        /\ (Selected /\ ~TrendFits) =>
              /\ prophet_mse = Inf
              /\ (ArFits => better_model = "ARMA")
        /\ (Selected /\ ~ArFits) =>
              /\ arma_mse = Inf
              /\ (TrendFits => better_model = "Prophet")

\* C6 as stated: when both models fail to fit, the run ends normally with
\* no plot and no forecast table, having printed "No predictions available."
C6_BothFail ==
    (~TrendFits /\ ~ArFits /\ Terminated) =>
        /\ fc_pc = "done"
        /\ plotted = "none"
        /\ ~TrendTablePrinted
        /\ printed[Len(printed)] = "No predictions available."

\* C6, what holds: the same when the trend model fails for too few rows.
C6_BothFailTooShort ==
    (~TrendFits /\ ~ArFits /\ Terminated
        /\ world.p_fetch = "frame" /\ world.p_fit = "ok") =>
        /\ fc_pc = "done"
        /\ plotted = "none"
        /\ ~TrendTablePrinted
        /\ printed[Len(printed)] = "No predictions available."

\* A forecast of one of the models is displayed: the trend model's table,
\* or the autoregressive forecast's change over the 7 days.
ArChangePrinted ==
    \E direction \in {"increased", "decreased"} :
        ("The predicted price " \o direction \o " by x% after 7 days.") \in PrintedItems
ForecastDisplayed == TrendTablePrinted \/ ArChangePrinted
NoPredictionsPrinted == "No predictions available." \in PrintedItems

C17_UnlessForwardFitFails ==
    (fc_pc = "done" /\ ~(better_model = "ARMA" /\ world.a_fit_full = "None")) =>
        /\ (TrendScore < Inf \/ ArScore < Inf) => ForecastDisplayed
        /\ NoPredictionsPrinted => (TrendScore = Inf /\ ArScore = Inf)

\* The run in which the output is suppressed: both models have a score, the
\* autoregressive model is selected, its forward fit fails.
C17_Suppressed ==
    /\ fc_pc = "done"
    /\ TrendScore = 2 /\ ArScore = 1
    /\ better_model = "ARMA"
    /\ world.a_fit_full = "None"
    /\ NoPredictionsPrinted
    /\ ~ForecastDisplayed

(***************************************************************************)
(* 1. load_stock_tickers                                                   *)
(***************************************************************************)
\* The tickers file: absent, without any content, or a table. A row gives
\* the text of each column; pd.read_csv reads an empty text as NaN.
CsvColumns == {<<>>, <<"SYMBOL">>, <<"NAME">>, <<"NAME", "SYMBOL">>}
CsvTexts(col) == IF col = "SYMBOL" THEN {"", "A", "B"} ELSE {"x"}
CsvRows(cols) ==
    IF cols = <<>> THEN {<<>>}
    ELSE SeqsUpTo({r \in [Range(cols) -> {"", "A", "B", "x"}] :
                        \A c \in Range(cols) : r[c] \in CsvTexts(c)}, MaxCsvRows)
CsvFiles ==
    {[exists |-> FALSE, columns |-> <<>>, rows |-> <<>>]} \cup
    {[exists |-> TRUE, columns |-> cols, rows |-> rows] :
        <<cols, rows>> \in UNION {{<<c, r>> : r \in CsvRows(c)} : c \in CsvColumns}}

\* line 38: .dropna() on the column
DropNaTexts(col) == SelectSeq(col, LAMBDA t : t # "")

\* line 38: .unique(), the values in the order of their first appearance
Unique(col) ==
    LET firsts == {i \in DOMAIN col : \A j \in 1..(i - 1) : col[j] # col[i]}
        nth(k) == CHOOSE i \in firsts : Cardinality({j \in firsts : j <= i}) = k
    IN [k \in 1..Cardinality(firsts) |-> col[nth(k)]]

\* lines 31-40: the body of the try: the exception it raises, or the list
TryBody(file) ==
    IF ~file.exists
    THEN [exc |-> "FileNotFoundError", msg |-> "No such file or directory", tickers |-> <<>>]
    ELSE IF file.columns = <<>>
    THEN [exc |-> "EmptyDataError", msg |-> "No columns to parse from file", tickers |-> <<>>]
    ELSE IF "SYMBOL" \notin Range(file.columns)
    THEN [exc |-> "ValueError", msg |-> "CSV file must contain a 'SYMBOL' column.",
          tickers |-> <<>>]
    ELSE [exc |-> "none", msg |-> "",
          tickers |-> Unique(DropNaTexts([i \in DOMAIN file.rows |-> file.rows[i]["SYMBOL"]]))]

\* lines 41, 44: the except clause that takes an exception
OnlyFileNotFound(exc) == IF exc = "FileNotFoundError" THEN "FileNotFoundError" ELSE "none"
ExceptClause(exc) == IF exc = "FileNotFoundError" THEN "FileNotFoundError" ELSE "Exception"

LdInit ==
    /\ AoIdle
    /\ AfIdle
    /\ PrIdle
    /\ RtIdle
    /\ PlIdle
    /\ RecIdle
    /\ FcIdle
    /\ PpIdle
    /\ FtIdle
    /\ csv_file \in CsvFiles
    /\ load_pc = "call"
    /\ loaded = <<>>
    /\ load_printed = <<>>

\* lines 31-40: the symbols are read, counted and returned
LoadReturnsTickers ==
    /\ load_pc = "call"
    /\ TryBody(csv_file).exc = "none"
    /\ loaded' = TryBody(csv_file).tickers
    /\ load_printed' = <<"Loaded tickers">>
    /\ load_pc' = "done"
    /\ UNCHANGED <<csv_file, recVars, fcVars, ppVars, ftVars, plVars, rtVars, prVars, afVars, aoVars>>

\* lines 41-43
LoadFileNotFound ==
    /\ load_pc = "call"
    /\ TryBody(csv_file).exc # "none"
    /\ ExceptClause(TryBody(csv_file).exc) = "FileNotFoundError"
    /\ loaded' = <<>>
    /\ load_printed' = <<"Error: The file does not exist.">>
    /\ load_pc' = "done"
    /\ UNCHANGED <<csv_file, recVars, fcVars, ppVars, ftVars, plVars, rtVars, prVars, afVars, aoVars>>

\* lines 44-46
LoadOtherError ==
    /\ load_pc = "call"
    /\ TryBody(csv_file).exc # "none"
    /\ ExceptClause(TryBody(csv_file).exc) = "Exception"
    /\ loaded' = <<>>
    /\ load_printed' = <<"Error loading tickers: ", TryBody(csv_file).msg>>
    /\ load_pc' = "done"
    /\ UNCHANGED <<csv_file, recVars, fcVars, ppVars, ftVars, plVars, rtVars, prVars, afVars, aoVars>>

LdNext ==
    \/ LoadReturnsTickers
    \/ LoadFileNotFound
    \/ LoadOtherError

SpecLoad == LdInit /\ [][LdNext]_vars

\* ---- the vocabulary of the claim about the load

FileAbsent == ~csv_file.exists
SymbolColumnMissing ==
    csv_file.exists /\ csv_file.columns # <<>> /\ "SYMBOL" \notin Range(csv_file.columns)
ReturnedEmpty == load_pc = "done" /\ loaded = <<>>

Symbols == {"A", "B"}

\* The text of a file is the sequence of the fields written to it, with NL
\* where a line is terminated.
NL == "\n"

\* line 65: the header line, as its fields
HeaderLine ==
    <<"Ticker", "Sector", "Market Cap", "P/E Ratio", "Average Return", "Volatility">>

\* stock.info of a symbol: "A" has its fundamentals, "B" has none.
ProviderInfo(ticker) ==
    IF ticker = "A"
    THEN [sector |-> "IT", marketCap |-> "1", trailingPE |-> "2"]
    ELSE <<>>

\* lines 93-95: mean and std of the daily returns of the history, as text
HistoryStats(ticker) == [avg_return |-> "0.01", volatility |-> "0.02"]

\* info.get(key, default), lines 99-101
InfoGetNoDefault(info, key, default) == IF key \in DOMAIN info THEN info[key] ELSE "nan"
InfoGet(info, key, default) == IF key \in DOMAIN info THEN info[key] ELSE default

\* lines 99-115: the line written for a ticker, as its fields; a missing
\* market cap or P/E is written as the empty string
BuildRow(ticker, info, stats) ==
    LET sector == InfoGet(info, "sector", "Unknown")
        market_cap == InfoGet(info, "marketCap", "nan")
        pe_ratio == InfoGet(info, "trailingPE", "nan")
    IN <<ticker, sector,
         IF market_cap = "nan" THEN "" ELSE market_cap,
         IF pe_ratio = "nan" THEN "" ELSE pe_ratio,
         stats.avg_return, stats.volatility>>
RowLine(ticker) == BuildRow(ticker, ProviderInfo(ticker), HistoryStats(ticker))

\* What the provider does for one ticker: a call in the try body raises,
\* the history is empty, or history and info are delivered.
FetchOutcomes == {"raises", "empty", "ok"}

\* The output file as a run may find it: absent, empty, left by an earlier
\* run, or a table whose last line is not terminated.
InitialFiles ==
    { [exists |-> FALSE, text |-> <<>>],
      [exists |-> TRUE, text |-> <<>>],
      [exists |-> TRUE, text |-> HeaderLine \o <<NL>> \o RowLine("B") \o <<NL>>],
      [exists |-> TRUE, text |-> HeaderLine \o <<NL>> \o RowLine("B")] }

\* line 64: the header is written when the file does not exist
NeedsHeaderAlways(file) == TRUE
NeedsHeader(file) == ~file.exists

\* lines 66-67: open(output_csv, 'w') and the header line
CreateWithHeader(file) == [exists |-> TRUE, text |-> HeaderLine \o <<NL>>]

\* lines 114-115: open(output_csv, 'a') and one line
AppendLine(file, line) == [exists |-> TRUE, text |-> file.text \o line \o <<NL>>]

\* line 78: tickers[i:i + batch_size]
BatchTickers(ts, i, bs) == SubSeq(ts, i + 1, Min(i + bs, Len(ts)))

\* lines 122-124: the handler of the inner try ends with continue: the loop
\* goes on with the next ticker of the batch
AbandonBatch(j, n) == n
NextInBatch(j, n) == j + 1

FtInit ==
    /\ AoIdle
    /\ AfIdle
    /\ PrIdle
    /\ RtIdle
    /\ PlIdle
    /\ LdIdle
    /\ RecIdle
    /\ FcIdle
    /\ PpIdle
    /\ tickers \in SeqsUpTo(Symbols, MaxTickers)
    /\ batch_size \in 1..MaxBatch
    /\ provider \in [DOMAIN tickers -> FetchOutcomes]
    /\ output_csv \in InitialFiles
    /\ file_before = output_csv
    /\ fetch_pc = "start"
    /\ batch_i = 0
    /\ batch_j = 0
    /\ fetch_log = <<>>
    /\ runs = 0

\* lines 63-75: the header, then the batch loop is entered
FetchStart ==
    /\ fetch_pc = "start"
    /\ output_csv' = IF NeedsHeader(output_csv)
                     THEN CreateWithHeader(output_csv) ELSE output_csv
    /\ batch_i' = 0
    /\ batch_j' = 0
    /\ fetch_pc' = "batch"
    /\ UNCHANGED <<tickers, batch_size, provider, file_before, fetch_log, runs,
                   recVars, fcVars, ppVars, ldVars, plVars, rtVars, prVars, afVars, aoVars>>

\* lines 77-78: the next batch is cut out
BatchStart ==
    /\ fetch_pc = "batch"
    /\ batch_i < Len(tickers)
    /\ batch_j' = 0
    /\ fetch_pc' = "ticker"
    /\ UNCHANGED <<tickers, batch_size, provider, output_csv, file_before,
                   batch_i, fetch_log, runs, recVars, fcVars, ppVars, ldVars, plVars, rtVars, prVars, afVars, aoVars>>

\* The ticker the inner loop is at, and its position in tickers.
CurrentPos == batch_i + batch_j + 1
CurrentBatchLen == Len(BatchTickers(tickers, batch_i, batch_size))
CurrentTicker == BatchTickers(tickers, batch_i, batch_size)[batch_j + 1]

\* lines 82-87, 122-124: a call for the ticker raises; the handler continues
TickerRaises ==
    /\ fetch_pc = "ticker"
    /\ batch_j < CurrentBatchLen
    /\ provider[CurrentPos] = "raises"
    /\ fetch_log' = Append(fetch_log, CurrentTicker)
    /\ batch_j' = NextInBatch(batch_j, CurrentBatchLen)
    /\ UNCHANGED <<tickers, batch_size, provider, output_csv, file_before,
                   fetch_pc, batch_i, runs, recVars, fcVars, ppVars, ldVars, plVars, rtVars, prVars, afVars, aoVars>>

\* lines 88-90: no history, the ticker is skipped
TickerNoHistory ==
    /\ fetch_pc = "ticker"
    /\ batch_j < CurrentBatchLen
    /\ provider[CurrentPos] = "empty"
    /\ fetch_log' = Append(fetch_log, CurrentTicker)
    /\ batch_j' = batch_j + 1
    /\ UNCHANGED <<tickers, batch_size, provider, output_csv, file_before,
                   fetch_pc, batch_i, runs, recVars, fcVars, ppVars, ldVars, plVars, rtVars, prVars, afVars, aoVars>>

\* lines 92-120: the row of the ticker is appended
TickerSaved ==
    /\ fetch_pc = "ticker"
    /\ batch_j < CurrentBatchLen
    /\ provider[CurrentPos] = "ok"
    /\ fetch_log' = Append(fetch_log, CurrentTicker)
    /\ output_csv' = AppendLine(output_csv, RowLine(CurrentTicker))
    /\ batch_j' = batch_j + 1
    /\ UNCHANGED <<tickers, batch_size, provider, file_before, fetch_pc,
                   batch_i, runs, recVars, fcVars, ppVars, ldVars, plVars, rtVars, prVars, afVars, aoVars>>

\* lines 77, 127: the batch is through, i advances by batch_size
BatchEnd ==
    /\ fetch_pc = "ticker"
    /\ batch_j >= CurrentBatchLen
    /\ batch_i' = batch_i + batch_size
    /\ batch_j' = 0
    /\ fetch_pc' = "batch"
    /\ UNCHANGED <<tickers, batch_size, provider, output_csv, file_before,
                   fetch_log, runs, recVars, fcVars, ppVars, ldVars, plVars, rtVars, prVars, afVars, aoVars>>

\* line 133: the loop is through
FetchDone ==
    /\ fetch_pc = "batch"
    /\ batch_i >= Len(tickers)
    /\ fetch_pc' = "done"
    /\ runs' = runs + 1
    /\ UNCHANGED <<tickers, batch_size, provider, output_csv, file_before,
                   batch_i, batch_j, fetch_log, recVars, fcVars, ppVars, ldVars, plVars, rtVars, prVars, afVars, aoVars>>

\* The function is run again over the same tickers and the same file.
FetchAgain ==
    /\ fetch_pc = "done"
    /\ runs < MaxRuns
    /\ fetch_pc' = "start"
    /\ file_before' = output_csv
    /\ fetch_log' = <<>>
    /\ batch_i' = 0
    /\ batch_j' = 0
    /\ UNCHANGED <<tickers, batch_size, provider, output_csv, runs,
                   recVars, fcVars, ppVars, ldVars, plVars, rtVars, prVars, afVars, aoVars>>

FtNext ==
    \/ FetchStart
    \/ BatchStart
    \/ TickerRaises
    \/ TickerNoHistory
    \/ TickerSaved
    \/ BatchEnd
    \/ FetchDone
    \/ FetchAgain

SpecFetch == FtInit /\ [][FtNext]_vars

\* ---- the vocabulary of the claims about the fetch

IsPrefix(s, t) == Len(s) <= Len(t) /\ SubSeq(t, 1, Len(s)) = s

\* The text the run saves for the first n tickers: the lines of those the
\* provider delivers, in the order of the list.
RECURSIVE SavedText(_)
SavedText(n) ==
    IF n = 0 THEN <<>>
    ELSE SavedText(n - 1) \o
         (IF provider[n] = "ok" THEN RowLine(tickers[n]) \o <<NL>> ELSE <<>>)

\* The text of the file when the run has written its header, if it writes one.
StartText == IF file_before.exists THEN file_before.text ELSE HeaderLine \o <<NL>>

\* The lines of a text; a last line without NL counts as a line.
LineStarts(text) == {i \in DOMAIN text : i = 1 \/ text[i - 1] = NL}
LineEnd(text, s) ==
    CHOOSE e \in s..(Len(text) + 1) :
        /\ e = Len(text) + 1 \/ text[e] = NL
        /\ \A i \in s..(e - 1) : text[i] # NL
Lines(text) ==
    LET starts == LineStarts(text)
        nth(k) == CHOOSE b \in starts : Cardinality({c \in starts : c <= b}) = k
    IN [k \in 1..Cardinality(starts) |->
            SubSeq(text, nth(k), LineEnd(text, nth(k)) - 1)]
EndsWithNL(text) == text = <<>> \/ text[Len(text)] = NL
HeaderCount(text) ==
    LET ls == Lines(text) IN Cardinality({k \in DOMAIN ls : ls[k] = HeaderLine})

\* C8: for every ticker list, batch size and pattern of failures and empty
\* histories, the tickers are attempted once each in the order of the list
\* (the attempts so far are always a prefix of the list, and the whole list
\* when the run is through), a run that is not through can always take its
\* next step, and the finished run has added to the file exactly the rows
\* of the tickers whose history and info were delivered.
C8_EachTickerOnce ==
    /\ IsPrefix(fetch_log, tickers)
    /\ fetch_pc \in {"start", "batch", "ticker"} => ENABLED FtNext
    /\ fetch_pc = "done" =>
        /\ fetch_log = tickers
        /\ output_csv.text = StartText \o SavedText(Len(tickers))

C8_Witness ==
    /\ fetch_pc = "done"
    /\ batch_size = 2
    /\ tickers = <<"A", "B", "A">>
    /\ provider = <<"raises", "ok", "empty">>
    /\ fetch_log = tickers
    /\ output_csv.text = HeaderLine \o <<NL>> \o RowLine("B") \o <<NL>>

\* One step of a run and the file: what the step leaves of the lines the
\* file had, and whether it adds a header.
KeepsLines(old, new) ==
    \/ new = old
    \/ /\ new.exists
       /\ IsPrefix(Lines(old.text), Lines(new.text))
       /\ HeaderCount(new.text) = HeaderCount(old.text)
HeaderIffAbsent(old, new) ==
    ~old.exists /\ new.exists => new.text = HeaderLine \o <<NL>>
TwiceDuplicates ==
    LET saved == SavedText(Len(tickers))
        once == HeaderLine \o <<NL>> \o saved
    IN (fetch_pc = "done" /\ runs >= 2 /\ file_before.text = once)
            => output_csv.text = once \o saved

\* C9 as stated: a step of a run leaves every line of an existing file in
\* place and adds no header to it, the header is written exactly when the
\* file did not exist, and the second run over a file the first run created
\* leaves one header followed by the rows twice.
C9_ExistingLinesKept ==
    [][ /\ output_csv.exists => KeepsLines(output_csv, output_csv')
        /\ HeaderIffAbsent(output_csv, output_csv')
        /\ TwiceDuplicates' ]_vars

\* C9, amended: the same for an existing file that is empty or ends with a
\* line terminator; when the last line of the file is not terminated, the
\* text of the file is still kept as a prefix, with the first row the run
\* saves running on in that last line.
C9_AppendOnly ==
    [][ /\ (output_csv.exists /\ EndsWithNL(output_csv.text))
            => KeepsLines(output_csv, output_csv')
        /\ output_csv.exists
            => output_csv'.exists /\ IsPrefix(output_csv.text, output_csv'.text)
        /\ HeaderIffAbsent(output_csv, output_csv')
        /\ TwiceDuplicates' ]_vars

C9_Witness ==
    /\ fetch_pc = "done"
    /\ runs = 2
    /\ tickers = <<"A", "B">>
    /\ provider = <<"ok", "ok">>
    /\ output_csv.text = HeaderLine \o <<NL>> \o
            RowLine("A") \o <<NL>> \o RowLine("B") \o <<NL>> \o
            RowLine("A") \o <<NL>> \o RowLine("B") \o <<NL>>

\* The run that meets a last line without terminator: its first row runs on
\* in that line.
C9_UnterminatedJoined ==
    /\ fetch_pc = "done"
    /\ runs = 1
    /\ tickers = <<"A">>
    /\ provider = <<"ok">>
    /\ ~EndsWithNL(file_before.text)
    /\ Lines(output_csv.text) = <<HeaderLine, RowLine("B") \o RowLine("A")>>

(***************************************************************************)
(* 3. preprocess_data                                                      *)
(***************************************************************************)
\* A cell of a frame: missing (NaN), an infinity, a number or a string.
NaN == [k |-> "nan", v |-> 0]
PosInf == [k |-> "inf", v |-> 1]
NegInf == [k |-> "inf", v |-> -1]
Num(x) == [k |-> "num", v |-> x]
Str(x) == [k |-> "str", v |-> x]
NaStr == [k |-> "nan", v |-> ""]

IsNa(c) == c.k = "nan"
IsInfinite(c) == c.k = "inf"

\* essential_columns, line 147, and numerical_features, line 157
NumericalFeatures == {"Market Cap", "P/E Ratio", "Average Return", "Volatility"}
EssentialColumns == {"Sector"} \cup NumericalFeatures

\* The cells tried in each column of the consolidated table.
SectorCells == {NaStr, Str("IT")}
NumCells(col) ==
    {NaN, PosInf, NegInf, Num(1)}
        \cup (IF col = "Average Return" THEN {Num(3)} ELSE {})
TickerNames == <<"A", "B", "C", "D">>

\* The cells of one row of the file.
Cells(s, mc, pe, ar, vol) ==
    ("Sector" :> s) @@ ("Market Cap" :> mc) @@ ("P/E Ratio" :> pe)
        @@ ("Average Return" :> ar) @@ ("Volatility" :> vol)
RowCells ==
    { Cells(s, mc, pe, ar, vol) :
        s \in SectorCells, mc \in NumCells("Market Cap"),
        pe \in NumCells("P/E Ratio"), ar \in NumCells("Average Return"),
        vol \in NumCells("Volatility") }

\* The rows that surround the row under study: two clean rows, a row with
\* no sector and a row with an infinite P/E.
ContextCells ==
    { Cells(Str("IT"), Num(1), Num(1), Num(1), Num(1)),
      Cells(Str("IT"), Num(1), Num(1), Num(3), Num(1)),
      Cells(NaStr, Num(1), Num(1), Num(1), Num(1)),
      Cells(Str("IT"), Num(1), PosInf, Num(1), Num(1)) }

\* The frames pd.read_csv yields: index labels 0..n-1; src is the position
\* of the row in the file, kept to tell the rows apart (not a column).
\* A frame is made of context rows, with at most one of them replaced by
\* any row.
FrameOf(f) ==
    [i \in DOMAIN f |->
        [src |-> i, idx |-> i - 1, Ticker |-> TickerNames[i], cells |-> f[i]]]
InputFrames ==
    { FrameOf([i \in DOMAIN g |-> IF i = k THEN r ELSE g[i]]) :
        k \in 1..MaxPreRows, r \in RowCells,
        g \in UNION {[1..n -> ContextCells] : n \in 0..MaxPreRows} }

\* df.dropna(subset=cols): the rows with no missing cell among cols
DropNa(df, cols) ==
    LET Complete(row) == \A col \in cols : ~IsNa(row.cells[col])
    IN SelectSeq(df, Complete)

\* reset_index(drop=True): index labels 0..n-1 again
ResetIndex(df) == [i \in DOMAIN df |-> [df[i] EXCEPT !.idx = i - 1]]

\* pd.get_dummies(df_clean['Sector'], prefix='Sector') joined to the frame
\* without its Sector column (lines 151-154): one indicator per sector that
\* occurs in df_clean.
EncodeSector(df) ==
    LET present == {df[i].cells["Sector"].v : i \in DOMAIN df}
    IN [i \in DOMAIN df |->
          [src |-> df[i].src, idx |-> df[i].idx, Ticker |-> df[i].Ticker,
           cells |-> [col \in NumericalFeatures |-> df[i].cells[col]],
           dummies |-> [sec \in present |-> df[i].cells["Sector"].v = sec]]]

\* df[cols].replace([np.inf, -np.inf], np.nan), line 160
ReplaceInf(df, cols) ==
    [i \in DOMAIN df |->
        [df[i] EXCEPT !.cells =
            [col \in DOMAIN df[i].cells |->
                IF col \in cols /\ IsInfinite(df[i].cells[col])
                THEN NaN ELSE df[i].cells[col]]]]

\* line 163: df_final.dropna(subset=numerical_features)
KeepRows(df) == df
DropMissingNumeric(df) == DropNa(df, NumericalFeatures)

\* StandardScaler.fit_transform refuses a frame with no row or with an
\* infinity (missing values it lets through).
ScalerRaises(df, cols) ==
    \/ df = <<>>
    \/ \E i \in DOMAIN df : \E col \in cols : IsInfinite(df[i].cells[col])

RECURSIVE SumOver(_, _)
SumOver(f, S) ==
    IF S = {} THEN 0
    ELSE LET x == CHOOSE y \in S : TRUE IN f[x] + SumOver(f, S \ {x})

\* (x - mean) / std over the n present values of the column, population
\* std, kept exact as the pair num / sqrt(den2) with
\*   num = n*x - sum(x),  den2 = n*sum(x^2) - sum(x)^2;
\* a zero std is replaced by 1, so the value is 0 / sqrt(1).
Standardize(df, col, i) ==
    LET present == {k \in DOMAIN df : ~IsNa(df[k].cells[col])}
        n == Cardinality(present)
        xs == [k \in present |-> df[k].cells[col].v]
        sq == [k \in present |-> xs[k] * xs[k]]
        den2 == n * SumOver(sq, present) - SumOver(xs, present) * SumOver(xs, present)
    IN IF IsNa(df[i].cells[col]) THEN [k |-> "nan", num |-> 0, den2 |-> 1]
       ELSE [k |-> "num", num |-> n * xs[i] - SumOver(xs, present),
             den2 |-> IF den2 = 0 THEN 1 ELSE den2]

\* scaler.fit_transform(df_final[numerical_features]), lines 166-167
Scale(df, cols) ==
    [i \in DOMAIN df |->
        [df[i] EXCEPT !.cells =
            [col \in DOMAIN df[i].cells |->
                IF col \in cols THEN Standardize(df, col, i)
                ELSE df[i].cells[col]]]]

\* preprocess_data, lines 143-170: whether it raises, and the frame returned
PreprocessData(df) ==
    LET df_clean == ResetIndex(DropNa(df, EssentialColumns))
        encoded == EncodeSector(df_clean)
        replaced == ReplaceInf(encoded, NumericalFeatures)
        dropped == DropMissingNumeric(replaced)
    IN IF ScalerRaises(dropped, NumericalFeatures)
       THEN [raised |-> TRUE, df |-> <<>>]
       ELSE [raised |-> FALSE, df |-> Scale(dropped, NumericalFeatures)]

PpInit ==
    /\ AoIdle
    /\ AfIdle
    /\ PrIdle
    /\ RtIdle
    /\ PlIdle
    /\ LdIdle
    /\ RecIdle
    /\ FcIdle
    /\ FtIdle
    /\ input_df \in InputFrames
    /\ pp_pc = "call"
    /\ df_final = <<>>

PreprocessReturns ==
    /\ pp_pc = "call"
    /\ ~PreprocessData(input_df).raised
    /\ df_final' = PreprocessData(input_df).df
    /\ pp_pc' = "returned"
    /\ UNCHANGED <<input_df, recVars, fcVars, ftVars, ldVars, plVars, rtVars, prVars, afVars, aoVars>>

PreprocessRaises ==
    /\ pp_pc = "call"
    /\ PreprocessData(input_df).raised
    /\ pp_pc' = "raised"
    /\ UNCHANGED <<input_df, df_final, recVars, fcVars, ftVars, ldVars, plVars, rtVars, prVars, afVars, aoVars>>

PpNext == PreprocessReturns \/ PreprocessRaises

SpecPreprocess == PpInit /\ [][PpNext]_vars

\* ---- what the claims speak of
\* A cell that is neither missing nor infinite.
IsFiniteCell(c) == c.k \in {"num", "str"}

\* C7: no returned row has a missing or infinite value in a numeric column,
\* and every returned row had all five essential fields present and finite
\* in the input.
C7_CleanOutput ==
    pp_pc = "returned" =>
        \A i \in DOMAIN df_final :
            /\ \A col \in NumericalFeatures :
                  df_final[i].cells[col].k = "num"
            /\ df_final[i].src \in DOMAIN input_df
            /\ \A col \in EssentialColumns :
                  IsFiniteCell(input_df[df_final[i].src].cells[col])

\* C7 witness: of two rows with every field present, the one with an
\* infinite value is dropped and the other is returned.
C7_Witness ==
    /\ pp_pc = "returned"
    /\ Len(input_df) = 2
    /\ \A i \in 1..2 : \A col \in EssentialColumns : ~IsNa(input_df[i].cells[col])
    /\ input_df[1].cells["Volatility"] = NegInf
    /\ Len(df_final) = 1
    /\ df_final[1].src = 2

(***************************************************************************)
(* 5c. determine_arma_order                                                *)
(***************************************************************************)
\* Correlations are kept in tenths; a correlation that is not defined
\* (a constant series) is NaN.
ThresholdTenths == 2      \* threshold=0.2, line 200
Correlations == {NaN, Num(-3), Num(-1), Num(2)}
\* The value at lag 0: 1.0 as acf and pacf give it, or any other value.
LagZero == {Num(10)} \cup Correlations

\* line 221, 228: abs(vals[i]) < threshold; False for NaN
AtMostThreshold(c, threshold) ==
    c.k = "num" /\ (IF c.v < 0 THEN 0 - c.v ELSE c.v) <= threshold
BelowThreshold(c, threshold) ==
    c.k = "num" /\ (IF c.v < 0 THEN 0 - c.v ELSE c.v) < threshold

\* lines 219-223 and 226-230: the scan of range(1, len(vals)) with its
\* break; vals[i + 1] is the value at lag i
RECURSIVE ScanFrom(_, _, _)
ScanFrom(vals, i, threshold) ==
    IF i >= Len(vals) THEN 0
    ELSE IF BelowThreshold(vals[i + 1], threshold) THEN i
    ELSE ScanFrom(vals, i + 1, threshold)

\* lines 218-232
DetermineArmaOrder(pacf_vals, acf_vals, threshold) ==
    <<ScanFrom(pacf_vals, 1, threshold), ScanFrom(acf_vals, 1, threshold)>>

\* The sequences pacf(..., nlags=max_lag) and acf(..., nlags=max_lag) give:
\* max_lag + 1 values each.
LagValues(max_lag) ==
    {<<z>> \o rest : z \in LagZero, rest \in [1..max_lag -> Correlations]}

AoInit ==
    /\ RecIdle
    /\ FcIdle
    /\ PpIdle
    /\ FtIdle
    /\ LdIdle
    /\ PlIdle
    /\ RtIdle
    /\ PrIdle
    /\ AfIdle
    /\ \E max_lag \in 1..MaxLag :
        /\ ao_pacf \in LagValues(max_lag)
        /\ ao_acf \in LagValues(max_lag)
    /\ ao_pc = "call"
    /\ ao_order = <<0, 0>>

DetermineOrderReturns ==
    /\ ao_pc = "call"
    /\ ao_order' = DetermineArmaOrder(ao_pacf, ao_acf, ThresholdTenths)
    /\ ao_pc' = "returned"
    /\ UNCHANGED <<ao_pacf, ao_acf,
                   recVars, fcVars, ppVars, ftVars, ldVars, plVars, rtVars, prVars,
                   afVars>>

AoNext == DetermineOrderReturns

SpecArmaOrder == AoInit /\ [][AoNext]_vars

\* ---- the vocabulary of the claim about determine_arma_order

\* The lags 1..max_lag at which the magnitude is below 0.2.
LagsBelow(vals) ==
    {i \in 1..(Len(vals) - 1) :
        vals[i + 1].k = "num" /\ vals[i + 1].v \in {-1, 0, 1}}
SmallestOrZero(S) == IF S = {} THEN 0 ELSE CHOOSE i \in S : \A j \in S : i <= j

\* C16: p is the smallest lag in 1..max_lag whose partial autocorrelation
\* is below the threshold in magnitude, or 0 if there is none; q is the
\* same for the autocorrelation; each depends on its own sequence only,
\* and both lie in 0..max_lag.
C16_FirstLagBelow ==
    ao_pc = "returned" =>
        /\ ao_order[1] = SmallestOrZero(LagsBelow(ao_pacf))
        /\ ao_order[2] = SmallestOrZero(LagsBelow(ao_acf))
        /\ ao_order[1] \in 0..(Len(ao_pacf) - 1)
        /\ ao_order[2] \in 0..(Len(ao_acf) - 1)

C16_Witness ==
    /\ ao_pc = "returned"
    /\ ao_pacf = <<Num(-1), Num(2), Num(-1)>>
    /\ ao_acf = <<Num(10), NaN, Num(-3)>>
    /\ ao_order = <<2, 0>>

(***************************************************************************)
(* 4. One symbol from fetch_and_save_stock_data to preprocess_data         *)
(***************************************************************************)
\* stock.info of the symbol: each key absent, or with a value; a market cap
\* or P/E may also be present as NaN.
InfoSectors == {"absent", "IT", "FIN"}
InfoValues == {"absent", "nan", "1", "2"}
InfoOf(s, mc, pe) ==
    LET vals == [sector |-> s, marketCap |-> mc, trailingPE |-> pe]
    IN [k \in {x \in DOMAIN vals : vals[x] # "absent"} |-> vals[k]]

\* lines 93-95: the statistics of a history of several prices, and of a
\* history of one price (no daily return: mean and std are NaN)
StatsSamples ==
    { [avg_return |-> "0.01", volatility |-> "0.02"],
      [avg_return |-> "nan", volatility |-> "nan"] }

\* float(text) for the texts that occur, in hundredths
ParseFloat(text) ==
    CASE text = "0.01" -> 1
      [] text = "0.02" -> 2
      [] text = "1" -> 100
      [] text = "2" -> 200

\* pd.read_csv, line 143, on one field: the empty field and "nan" are read
\* as missing, the Sector column as strings, the other columns as numbers
ParseCell(col, text) ==
    IF text \in {"", "nan"} THEN (IF col = "Sector" THEN NaStr ELSE NaN)
    ELSE IF col = "Sector" THEN Str(text)
    ELSE Num(ParseFloat(text))

\* pd.read_csv, line 143: the first line names the columns, every further
\* line is a row; index labels 0..n-1
FieldOf(header, line, col) ==
    line[CHOOSE j \in DOMAIN header : header[j] = col]
ReadCsv(text) ==
    LET ls == Lines(text)
        header == ls[1]
    IN [i \in 1..(Len(ls) - 1) |->
          [src |-> i, idx |-> i - 1,
           Ticker |-> FieldOf(header, ls[i + 1], "Ticker"),
           cells |-> [col \in EssentialColumns |->
                        ParseCell(col, FieldOf(header, ls[i + 1], col))]]]

PlInit ==
    /\ AoIdle
    /\ AfIdle
    /\ PrIdle
    /\ RtIdle
    /\ RecIdle
    /\ FcIdle
    /\ PpIdle
    /\ FtIdle
    /\ LdIdle
    /\ \E s \in InfoSectors : \E mc \in InfoValues : \E pe \in InfoValues :
            pl_info = InfoOf(s, mc, pe)
    /\ pl_stats \in StatsSamples
    /\ pl_context \in BOOLEAN
    /\ pl_file = [exists |-> FALSE, text |-> <<>>]
    /\ pl_pc = "build"
    /\ pl_final = <<>>

\* stock_risk.py:64-67, 99-115: the file is created, the line of a complete
\* symbol "A" is saved if there is one, then the line of the symbol "B"
SaveSymbol ==
    /\ pl_pc = "build"
    /\ pl_file' =
        LET created == CreateWithHeader(pl_file)
            before == IF pl_context THEN AppendLine(created, RowLine("A"))
                      ELSE created
        IN AppendLine(before, BuildRow("B", pl_info, pl_stats))
    /\ pl_pc' = "written"
    /\ UNCHANGED <<pl_info, pl_stats, pl_context, pl_final,
                   recVars, fcVars, ppVars, ftVars, ldVars, rtVars, prVars, afVars, aoVars>>

\* stock_risk.py:143-170 on the file
PreprocessFileReturns ==
    /\ pl_pc = "written"
    /\ ~PreprocessData(ReadCsv(pl_file.text)).raised
    /\ pl_final' = PreprocessData(ReadCsv(pl_file.text)).df
    /\ pl_pc' = "returned"
    /\ UNCHANGED <<pl_info, pl_stats, pl_context, pl_file,
                   recVars, fcVars, ppVars, ftVars, ldVars, rtVars, prVars, afVars, aoVars>>

\* stock_risk.py:166-167: the scaler refuses the frame
PreprocessFileRaises ==
    /\ pl_pc = "written"
    /\ PreprocessData(ReadCsv(pl_file.text)).raised
    /\ pl_pc' = "raised"
    /\ UNCHANGED <<pl_info, pl_stats, pl_context, pl_file, pl_final,
                   recVars, fcVars, ppVars, ftVars, ldVars, rtVars, prVars, afVars, aoVars>>

PlNext ==
    \/ SaveSymbol
    \/ PreprocessFileReturns
    \/ PreprocessFileRaises

SpecPipeline == PlInit /\ [][PlNext]_vars

\* ---- the vocabulary of the claim about partial fundamentals

Missing(key) == key \notin DOMAIN pl_info \/ pl_info[key] = "nan"
\* The line of the symbol "B" in the file, and its field of a column.
SymbolLine == LET ls == Lines(pl_file.text) IN ls[Len(ls)]
SymbolField(col) == FieldOf(HeaderLine, SymbolLine, col)
\* The symbol is among the rows handed to the clustering.
SymbolReachesClustering ==
    pl_pc = "returned" /\ \E i \in DOMAIN pl_final : pl_final[i].Ticker = "B"
Written == pl_pc \in {"written", "returned", "raised"}

\* C11 as stated: a missing sector, market cap or P/E is written as an empty
\* field, and a symbol with one of them missing does not reach the
\* clustering.
C11_PartialDropped ==
    Written =>
        /\ Missing("sector") => SymbolField("Sector") = ""
        /\ Missing("marketCap") => SymbolField("Market Cap") = ""
        /\ Missing("trailingPE") => SymbolField("P/E Ratio") = ""
        /\ (Missing("sector") \/ Missing("marketCap") \/ Missing("trailingPE"))
                => ~SymbolReachesClustering

\* C11, amended: a missing market cap or P/E is written as an empty field
\* and the symbol does not reach the clustering; a missing sector is written
\* as "Unknown", and the symbol then reaches the clustering, in the sector
\* "Unknown", whenever its market cap, P/E and return statistics are there.
C11_ValuationDropped ==
    Written =>
        /\ Missing("marketCap") => SymbolField("Market Cap") = ""
        /\ Missing("trailingPE") => SymbolField("P/E Ratio") = ""
        /\ (Missing("marketCap") \/ Missing("trailingPE")) => ~SymbolReachesClustering
        /\ Missing("sector") =>
            /\ SymbolField("Sector") = "Unknown"
            /\ (/\ pl_pc \in {"returned", "raised"}
                /\ ~Missing("marketCap") /\ ~Missing("trailingPE")
                /\ pl_stats.avg_return # "nan" /\ pl_stats.volatility # "nan")
               => /\ SymbolReachesClustering
                  /\ \A i \in DOMAIN pl_final :
                        pl_final[i].Ticker = "B" => pl_final[i].dummies["Unknown"]

C11_Witness ==
    /\ pl_pc = "returned"
    /\ pl_context
    /\ Missing("sector")
    /\ ~Missing("marketCap")
    /\ ~Missing("trailingPE")
    /\ Len(pl_final) = 2
    /\ pl_final[2].Ticker = "B"
    /\ pl_final[2].dummies["Unknown"]

(***************************************************************************)
(* 5. train_and_predict_prophet: the dates of its predictions              *)
(***************************************************************************)
\* A date is a day number; day 0 is a Monday, weekday() is 0 for Monday to
\* 6 for Sunday.
Weekday(d) == d % 7
IsNotSunday(d) == Weekday(d) < 6
IsBusinessDay(d) == Weekday(d) < 5

FutureDays == 7           \* future_days=7, line 398

\* Prophet.make_future_dataframe(periods) with its defaults freq='D',
\* include_history=True: the dates after the last date of the history it
\* was fitted on, one per calendar day (the history dates come before them)
FutureDates(last_date, periods) == [i \in 1..periods |-> last_date + i]

\* line 87: forecast.set_index('ds').loc[test_df['ds']] raises KeyError for
\* a test date that is not among the dates of the forecast
TestDatesMissing(last_train, test, future_days) ==
    \E i \in DOMAIN test :
        test[i] \notin Range(FutureDates(last_train, Len(test) + future_days))

\* lines 93-96: make_future_dataframe(periods=future_days) on the model
\* fitted on train_df, then tail(future_days)
FuturePredictionDates(last_train, test, future_days) ==
    FutureDates(last_train, future_days)

\* lines 394-395: the last two rows are the test set, the rows before are
\* the training set; the rows are trading days in increasing order.
PrInit ==
    /\ AoIdle
    /\ AfIdle
    /\ RecIdle
    /\ FcIdle
    /\ PpIdle
    /\ FtIdle
    /\ LdIdle
    /\ PlIdle
    /\ RtIdle
    /\ pr_last_train \in {d \in 0..6 : IsBusinessDay(d)}
    /\ \E g1 \in 1..MaxGap : \E g2 \in 1..MaxGap :
        /\ pr_test = <<pr_last_train + g1, pr_last_train + g1 + g2>>
        /\ IsBusinessDay(pr_last_train + g1)
        /\ IsBusinessDay(pr_last_train + g1 + g2)
    /\ pr_pc = "call"
    /\ pr_future = <<>>

\* lines 63-98
TrainAndPredictReturns ==
    /\ pr_pc = "call"
    /\ ~TestDatesMissing(pr_last_train, pr_test, FutureDays)
    /\ pr_future' = FuturePredictionDates(pr_last_train, pr_test, FutureDays)
    /\ pr_pc' = "returned"
    /\ UNCHANGED <<pr_last_train, pr_test,
                   recVars, fcVars, ppVars, ftVars, ldVars, plVars, rtVars, afVars, aoVars>>

\* lines 87, 99-101
TrainAndPredictRaises ==
    /\ pr_pc = "call"
    /\ TestDatesMissing(pr_last_train, pr_test, FutureDays)
    /\ pr_pc' = "raised"
    /\ UNCHANGED <<pr_last_train, pr_test, pr_future,
                   recVars, fcVars, ppVars, ftVars, ldVars, plVars, rtVars, afVars, aoVars>>

PrNext ==
    \/ TrainAndPredictReturns
    \/ TrainAndPredictRaises

SpecProphetDates == PrInit /\ [][PrNext]_vars

\* ---- the vocabulary of the claim about the trend model's dates

LastTestDate == pr_test[Len(pr_test)]

\* C13 as stated: the 7 dates of the forward predictions are business days
\* that all lie strictly after the last test observation.
C13_BeyondTestWindow ==
    pr_pc = "returned" =>
        /\ Len(pr_future) = 7
        /\ \A i \in DOMAIN pr_future :
            /\ pr_future[i] > LastTestDate
            /\ IsBusinessDay(pr_future[i])

\* What the function returns instead: the 7 calendar days that follow the
\* last training observation; a weekend day is among them, and the first
\* of them is not later than the test observations.
C13_CalendarDaysAfterTraining ==
    pr_pc = "returned" =>
        /\ Len(pr_future) = 7
        /\ \A i \in DOMAIN pr_future : pr_future[i] = pr_last_train + i
        /\ \E i \in DOMAIN pr_future : ~IsBusinessDay(pr_future[i])
        /\ pr_future[1] <= pr_test[1]

C13_TestDatesPredicted ==
    /\ pr_pc = "returned"
    /\ pr_last_train = 0
    /\ pr_test = <<1, 2>>
    /\ pr_future = <<1, 2, 3, 4, 5, 6, 7>>

(***************************************************************************)
(* 5b. main: the forward forecast of the ARMA model and its dates          *)
(***************************************************************************)
ForecastSteps == 7        \* predict_arma(arma_model_full, steps=7), line 444

\* df.iloc[lo:hi] for lo, hi < 0 on a frame of n rows: the observations
\* from..to that the slice holds
IlocRows(n, lo, hi) == [from |-> Max(0, n + lo) + 1, to |-> Max(0, n + hi)]

\* lines 253-270: get_forecast(steps).predicted_mean of a model fitted on
\* the observations up to train_to: step k is the prediction for the
\* period train_to + k
PredictArma(train_to, steps) == [k \in 1..steps |-> train_to + k]

\* line 437 holds: df_arma has at least 32 rows; the fit and the forecast
\* succeed (lines 443, 445).
AfInit ==
    /\ AoIdle
    /\ RecIdle
    /\ FcIdle
    /\ PpIdle
    /\ FtIdle
    /\ LdIdle
    /\ PlIdle
    /\ RtIdle
    /\ PrIdle
    /\ af_len \in RequiredDaysArma..(RequiredDaysArma + MaxExtraRows)
    /\ af_last_date \in 0..MaxLastDate
    /\ af_pc = "fit"
    /\ af_train = [from |-> 1, to |-> 0]
    /\ af_forecast = <<>>
    /\ af_current = 0
    /\ af_future_dates = <<>>
    /\ af_index = <<>>

\* lines 439-449
FitAndForecast ==
    /\ af_pc = "fit"
    /\ af_train' = IlocRows(af_len, 0 - RequiredDaysArma, 0 - ArmaTestDays)
    /\ af_forecast' = PredictArma(af_train'.to, ForecastSteps)
    /\ af_current' = af_last_date
    /\ af_future_dates' = <<>>
    /\ af_pc' = "loop"
    /\ UNCHANGED <<af_len, af_last_date, af_index,
                   recVars, fcVars, ppVars, ftVars, ldVars, plVars, rtVars, prVars, aoVars>>

\* lines 450-453, a day that is appended
DateLoopAppend ==
    /\ af_pc = "loop"
    /\ Len(af_future_dates) < 7
    /\ af_current' = af_current + 1
    /\ IsBusinessDay(af_current')
    /\ af_future_dates' = Append(af_future_dates, af_current')
    /\ UNCHANGED <<af_len, af_last_date, af_pc, af_train, af_forecast, af_index,
                   recVars, fcVars, ppVars, ftVars, ldVars, plVars, rtVars, prVars, aoVars>>

\* lines 450-452, a day that is passed over
DateLoopSkip ==
    /\ af_pc = "loop"
    /\ Len(af_future_dates) < 7
    /\ af_current' = af_current + 1
    /\ ~IsBusinessDay(af_current')
    /\ UNCHANGED <<af_len, af_last_date, af_pc, af_train, af_forecast,
                   af_future_dates, af_index,
                   recVars, fcVars, ppVars, ftVars, ldVars, plVars, rtVars, prVars, aoVars>>

\* lines 450, 454: the loop is left, the dates become the index
AssignIndex ==
    /\ af_pc = "loop"
    /\ Len(af_future_dates) >= 7
    /\ af_index' = af_future_dates
    /\ af_pc' = "done"
    /\ UNCHANGED <<af_len, af_last_date, af_train, af_forecast, af_current,
                   af_future_dates,
                   recVars, fcVars, ppVars, ftVars, ldVars, plVars, rtVars, prVars, aoVars>>

AfNext ==
    \/ FitAndForecast
    \/ DateLoopAppend
    \/ DateLoopSkip
    \/ AssignIndex

SpecArmaForecast == AfInit /\ [][AfNext]_vars

\* ---- the vocabulary of the claims about the ARMA forward forecast

\* With one observation per business day, the k-th business day after the
\* last observed date is the period af_len + k.
PeriodOfIndex(k) == af_len + k

\* C14 as stated: the model of the forward forecast is fitted on the most
\* recent 30 observations, ending at the last one, and each of its 7 steps
\* is the prediction for the business day it is assigned to.
C14_TrailingWindow ==
    af_pc = "done" =>
        /\ af_train = [from |-> af_len - 29, to |-> af_len]
        /\ Len(af_forecast) = 7
        /\ \A k \in DOMAIN af_forecast : af_forecast[k] = PeriodOfIndex(k)

\* What main does instead: the model is fitted on the 30 observations
\* before the last two, and step k, the prediction for the period k - 2
\* after the last observation, is assigned to the k-th business day after
\* the last observed date.
C14_WindowBeforeTest ==
    af_pc = "done" =>
        /\ af_train = [from |-> af_len - 31, to |-> af_len - 2]
        /\ Len(af_forecast) = 7
        /\ Len(af_index) = 7
        /\ \A k \in DOMAIN af_forecast : af_forecast[k] = PeriodOfIndex(k) - 2

C14_Shifted ==
    /\ af_pc = "done"
    /\ af_len = 32
    /\ af_train = [from |-> 1, to |-> 30]
    /\ af_forecast[1] = 31
    /\ af_index[1] > af_last_date

\* C15: the date loop ends for every last observed date (the current date
\* only grows, never beyond 11 days after the last observed date, and a
\* step is always possible until the dates are assigned), and the dates
\* assigned are 7, strictly increasing, all after the last observed
\* date, none a Saturday or Sunday, and no Monday-Friday date between the
\* last observed date and the 7th of them is left out.
C15_SevenEarliestWeekdays ==
    /\ af_pc = "loop" =>
        /\ ENABLED AfNext
        /\ af_current <= af_last_date + 11
        /\ af_current >= af_last_date + Len(af_future_dates)
    /\ af_pc = "done" =>
        /\ Len(af_index) = 7
        /\ \A i \in 1..6 : af_index[i] < af_index[i + 1]
        /\ \A i \in 1..7 : af_index[i] > af_last_date /\ af_index[i] % 7 \notin {5, 6}
        /\ \A d \in (af_last_date + 1)..af_index[7] :
                d % 7 \notin {5, 6} => d \in Range(af_index)

C15_Witness ==
    /\ af_pc = "done"
    /\ af_last_date = 4
    /\ af_index = <<7, 8, 9, 10, 11, 14, 15>>

(***************************************************************************)
(* 6. save_clustering_results, and the read of its file in main            *)
(***************************************************************************)
\* A value of a column: [k, v] with k the kind ("int", "float", "str",
\* "nan") and v the text Python prints for it.
TickerTexts == {"", "A", "B", "7", "7.0"}
IntTexts == {"7", "0", "1"}
FloatTexts == {"7.0"}
AsFloatText(text) == IF text = "7" THEN "7.0" ELSE text
LabelTexts == {"0", "1"}
Missing12 == [k |-> "nan", v |-> ""]

\* pd.read_csv on the fields of one column: the empty field is missing; a
\* column whose other fields are all integers is an integer column (a float
\* column if a field is missing), one of integers and floats is a float
\* column, any other column keeps its fields as strings.
InferKind(texts) ==
    LET present == Range(texts) \ {""}
    IN IF present \subseteq IntTexts
       THEN (IF "" \in Range(texts) THEN "float" ELSE "int")
       ELSE IF present \subseteq IntTexts \cup FloatTexts THEN "float"
       ELSE "str"
ParseColumn(texts) ==
    [i \in DOMAIN texts |->
        IF texts[i] = "" THEN Missing12
        ELSE LET kind == InferKind(texts)
             IN [k |-> kind,
                 v |-> IF kind = "float" THEN AsFloatText(texts[i]) ELSE texts[i]]]

\* The rows of seq at the positions keep, in order.
RowsAt(seq, keep) ==
    LET nth(j) == CHOOSE i \in keep : Cardinality({h \in keep : h <= i}) = j
    IN [j \in 1..Cardinality(keep) |-> seq[nth(j)]]

\* df.to_csv on one value, line 263: a missing value is written as the
\* empty field, any other value as its text
FormatCellDash(c) == IF c.k = "nan" THEN "-" ELSE c.v
FormatCell(c) == IF c.k = "nan" THEN "" ELSE c.v

\* lines 261-263: the Cluster column is set, the table is written with its
\* header line and without the index
ToCsv(df, labels) ==
    LET row(i) == <<FormatCell(df[i]), FormatCell(labels[i]), NL>>
        RECURSIVE upto(_)
        upto(n) == IF n = 0 THEN <<"Ticker", "Cluster", NL>>
                   ELSE upto(n - 1) \o row(n)
    IN upto(Len(df))

\* line 377: clustered_df = pd.read_csv('indian_stocks_clusters.csv')
ReadClusters(text) ==
    LET ls == Lines(text)
        header == ls[1]
        column(name) == [i \in 1..(Len(ls) - 1) |-> FieldOf(header, ls[i + 1], name)]
        ticker == ParseColumn(column("Ticker"))
        cluster == ParseColumn(column("Cluster"))
    IN [i \in 1..(Len(ls) - 1) |-> [Ticker |-> ticker[i], Cluster |-> cluster[i]]]

\* The preprocessed frame: the Ticker column as pd.read_csv read it from
\* the consolidated table (line 143), without the rows that were dropped
\* (lines 148, 163); it has a row (line 359). The labels are those of
\* KMeans.fit_predict, one integer per row.
RtInit ==
    /\ AoIdle
    /\ AfIdle
    /\ PrIdle
    /\ RecIdle
    /\ FcIdle
    /\ PpIdle
    /\ FtIdle
    /\ LdIdle
    /\ PlIdle
    /\ \E source \in SeqsUpTo(TickerTexts, MaxSavedRows) :
        \E keep \in (SUBSET DOMAIN source) \ {{}} :
            /\ rt_df = RowsAt(ParseColumn(source), keep)
            /\ rt_labels \in [1..Cardinality(keep) ->
                                {[k |-> "int", v |-> t] : t \in LabelTexts}]
    /\ rt_file = <<>>
    /\ rt_pc = "save"
    /\ rt_read = <<>>

\* lines 261-263
SaveClusteringResults ==
    /\ rt_pc = "save"
    /\ rt_file' = ToCsv(rt_df, rt_labels)
    /\ rt_pc' = "saved"
    /\ UNCHANGED <<rt_df, rt_labels, rt_read,
                   recVars, fcVars, ppVars, ftVars, ldVars, plVars, prVars, afVars, aoVars>>

\* line 377
ReadClusteredDf ==
    /\ rt_pc = "saved"
    /\ rt_read' = ReadClusters(rt_file)
    /\ rt_pc' = "read"
    /\ UNCHANGED <<rt_df, rt_labels, rt_file,
                   recVars, fcVars, ppVars, ftVars, ldVars, plVars, prVars, afVars, aoVars>>

RtNext ==
    \/ SaveClusteringResults
    \/ ReadClusteredDf

SpecRoundTrip == RtInit /\ [][RtNext]_vars

\* ---- the vocabulary of the claim about the round trip

\* The rows that were saved: ticker and label, in row order.
SavedMapping == [i \in DOMAIN rt_df |-> [Ticker |-> rt_df[i], Cluster |-> rt_labels[i]]]
\* The tickers that were saved are strings that all read as numbers.
NumericStrings ==
    /\ \E i \in DOMAIN rt_df : rt_df[i].k = "str"
    /\ \A i \in DOMAIN rt_df :
            rt_df[i].k = "str" => rt_df[i].v \in IntTexts \cup FloatTexts

C12_NumericTickerChanged ==
    /\ rt_pc = "read"
    /\ rt_df = <<[k |-> "str", v |-> "7"]>>
    /\ rt_read[1].Ticker = [k |-> "int", v |-> "7"]

(***************************************************************************)
(* 7. analyze_user_portfolio                                               *)
(***************************************************************************)
Tickers  == {"A", "B"}            \* tickers that occur in tables
Held     == {"A", "Z"}            \* tickers a portfolio may name ("Z": unknown)
Clusters == 0..2                  \* cluster labels
Returns  == 1..2                  \* values of the Average Return column

\* A row of the table: the pandas index label it keeps through filtering and
\* sorting, and the three columns that the function reads and returns.
TableRow(i, t, c, r) == [idx |-> i, Ticker |-> t, Cluster |-> c, AvgRet |-> r]

\* A table as pd.read_csv builds it: index labels 0..n-1 in row order.
Tables ==
    { [i \in DOMAIN f |-> TableRow(i - 1, f[i][1], f[i][2], f[i][3])] :
        f \in SeqsUpTo(Tickers \X Clusters \X Returns, MaxRows) }

\* clustered_df[clustered_df['Ticker'].isin(user_portfolio)]: the rows whose
\* Ticker is a holding, in table order
UserStocks(df, pf) ==
    LET InPf(row) == row.Ticker \in pf IN SelectSeq(df, InPf)

\* user_stocks['Cluster'].unique(), as the set isin() tests against
UserClustersFirstOnly(us) == IF us = <<>> THEN {} ELSE {us[1].Cluster}
UserClusters(us) == {us[i].Cluster : i \in DOMAIN us}

\* clustered_df[~clustered_df['Cluster'].isin(user_clusters)]
RecommendedStocks(df, uc) ==
    LET Outside(row) == row.Cluster \notin uc IN SelectSeq(df, Outside)

\* Whether s is ordered by Average Return, smallest / largest first.
IsAscending(s)  == \A i, j \in DOMAIN s : i < j => s[i].AvgRet <= s[j].AvgRet
IsDescending(s) == \A i, j \in DOMAIN s : i < j => s[i].AvgRet >= s[j].AvgRet

\* Every arrangement of the rows of pool.
Arrangements(pool) ==
    { [i \in DOMAIN pool |-> pool[p[i]]] : p \in Perms(Len(pool)) }

\* sort_values(by='Average Return', ascending=False): kind is left at its
\* default 'quicksort', which pandas documents as not stable, so the order
\* of rows with equal keys is any order: every descending arrangement of
\* the rows is a possible outcome.
SortValuesAscending(pool) == { s \in Arrangements(pool) : IsAscending(s) }
SortValues(pool) == { s \in Arrangements(pool) : IsDescending(s) }

\* DataFrame.head(n): the first n rows; for n < 0 all but the last -n rows.
DfHeadOffByOne(s, n) == SubSeq(s, 1, Min(Max(n - 1, 0), Len(s)))
DfHead(s, n) ==
    IF n >= 0 THEN SubSeq(s, 1, Min(n, Len(s)))
              ELSE SubSeq(s, 1, Max(Len(s) + n, 0))

\* The top_n a caller passes: an explicit count, or none (the default).
TopNArgs == (0..MaxTopN) \cup {DefaultTopN}

RecInit ==
    /\ AoIdle
    /\ AfIdle
    /\ PrIdle
    /\ RtIdle
    /\ PlIdle
    /\ LdIdle
    /\ FcIdle
    /\ PpIdle
    /\ FtIdle
    /\ clustered_df \in Tables
    /\ user_portfolio \in SUBSET Held
    /\ top_n \in TopNArgs
    /\ rec_pc = "call"
    /\ rec_path = "none"
    /\ recommendations = <<>>

\* line 287-289: no holding is in the table
ReturnNoMatch ==
    /\ rec_pc = "call"
    /\ UserStocks(clustered_df, user_portfolio) = <<>>
    /\ rec_pc' = "done"
    /\ rec_path' = "no_match"
    /\ recommendations' = <<>>
    /\ UNCHANGED <<clustered_df, user_portfolio, top_n, fcVars, ppVars, ftVars, ldVars, plVars, rtVars, prVars, afVars, aoVars>>

\* line 301-303: every row is in a cluster of the holdings
ReturnNoOtherCluster ==
    /\ rec_pc = "call"
    /\ LET us == UserStocks(clustered_df, user_portfolio) IN
        /\ us # <<>>
        /\ RecommendedStocks(clustered_df, UserClusters(us)) = <<>>
    /\ rec_pc' = "done"
    /\ rec_path' = "no_other_cluster"
    /\ recommendations' = <<>>
    /\ UNCHANGED <<clustered_df, user_portfolio, top_n, fcVars, ppVars, ftVars, ldVars, plVars, rtVars, prVars, afVars, aoVars>>

\* line 305-314: sort the pool, return its head
ReturnTop ==
    /\ rec_pc = "call"
    /\ LET us   == UserStocks(clustered_df, user_portfolio)
           pool == RecommendedStocks(clustered_df, UserClusters(us)) IN
        /\ us # <<>>
        /\ pool # <<>>
        /\ \E sorted \in SortValues(pool) :
              recommendations' = DfHead(sorted, top_n)
    /\ rec_pc' = "done"
    /\ rec_path' = "top"
    /\ UNCHANGED <<clustered_df, user_portfolio, top_n, fcVars, ppVars, ftVars, ldVars, plVars, rtVars, prVars, afVars, aoVars>>

RecNext == ReturnNoMatch \/ ReturnNoOtherCluster \/ ReturnTop

SpecRecommend == RecInit /\ [][RecNext]_vars

\* ---- what the claims speak of
\* The clusters of the table rows whose Ticker is in the holdings.
HeldClusters ==
    { clustered_df[i].Cluster :
        i \in { k \in DOMAIN clustered_df : clustered_df[k].Ticker \in user_portfolio } }

\* The candidate pool: the table rows outside the clusters of the holdings.
CandidatePool ==
    LET Out(row) == row.Cluster \notin HeldClusters IN SelectSeq(clustered_df, Out)

\* The one descending arrangement of s that keeps rows of equal Average
\* Return in their original order (the order of their index labels).
StableDescending(s) ==
    CHOOSE t \in Arrangements(s) :
        /\ IsDescending(t)
        /\ \A i, j \in DOMAIN t :
              (i < j /\ t[i].AvgRet = t[j].AvgRet) => t[i].idx < t[j].idx

\* C1: no returned row has the Cluster of a table row whose Ticker is in
\* the holdings (diversification invariant).
C1_Diversification ==
    rec_pc = "done" =>
        \A i \in DOMAIN recommendations :
            \A k \in DOMAIN clustered_df :
                clustered_df[k].Ticker \in user_portfolio
                    => recommendations[i].Cluster # clustered_df[k].Cluster

\* C1 witness: rows are returned although the table also holds a row that
\* is not a holding but shares a cluster with one (and is left out).
C1_Witness ==
    /\ rec_pc = "done"
    /\ recommendations # <<>>
    /\ \E k \in DOMAIN clustered_df :
          /\ clustered_df[k].Ticker \notin user_portfolio
          /\ clustered_df[k].Cluster \in HeldClusters

\* C2 as stated: with a non-empty pool the result is exactly the first
\* min(top_n, |pool|) rows of the pool sorted by Average Return descending
\* with equal returns kept in original row order (a stable sort).
C2_StableTop ==
    (rec_pc = "done" /\ CandidatePool # <<>> /\ HeldClusters # {}) =>
        recommendations =
            SubSeq(StableDescending(CandidatePool), 1,
                   Min(top_n, Len(CandidatePool)))

\* C2 amended: with a non-empty pool the result has min(top_n, |pool|) rows,
\* they are distinct rows of the pool in descending order of Average Return,
\* and no row left out has a larger Average Return than a row returned; the
\* order among rows of equal Average Return is not fixed.
C2_TopByReturn ==
    (rec_pc = "done" /\ CandidatePool # <<>> /\ HeldClusters # {}) =>
        /\ Len(recommendations) = Min(top_n, Len(CandidatePool))
        /\ \A i \in DOMAIN recommendations :
              recommendations[i] \in Range(CandidatePool)
        /\ \A i, j \in DOMAIN recommendations :
              i # j => recommendations[i].idx # recommendations[j].idx
        /\ IsDescending(recommendations)
        /\ \A k \in DOMAIN CandidatePool :
              CandidatePool[k] \notin Range(recommendations) =>
                \A i \in DOMAIN recommendations :
                    CandidatePool[k].AvgRet <= recommendations[i].AvgRet

\* C2 witness: a pool of two rows with different returns, the larger one
\* later in the table, cut to one row by top_n = 1.
C2_Witness ==
    /\ rec_pc = "done"
    /\ top_n = 1
    /\ Len(CandidatePool) = 2
    /\ CandidatePool[1].AvgRet < CandidatePool[2].AvgRet
    /\ recommendations = <<CandidatePool[2]>>

\* C3: for top_n >= 1 the result is empty exactly when no holding is in the
\* table or every table row is in a cluster of the holdings.
C3_EmptyExactly ==
    (rec_pc = "done" /\ top_n >= 1) =>
        ( recommendations = <<>>
            <=> \/ \A k \in DOMAIN clustered_df :
                      clustered_df[k].Ticker \notin user_portfolio
                \/ \A k \in DOMAIN clustered_df :
                      clustered_df[k].Cluster \in HeldClusters )

\* C3 witness: an empty result because the holdings cover every cluster
\* that occurs in a table of several rows.
C3_Witness ==
    /\ rec_pc = "done"
    /\ top_n >= 1
    /\ rec_path = "no_other_cluster"
    /\ Len(clustered_df) >= 2
    /\ recommendations = <<>>

=============================================================================
